---- MODULE Spec2Model ----
(***************************************************************************)
(* Model of nexus/server/request.go: the dispatch of server requests       *)
(* (handleServerRequest), the inform handlers, the publish / communicate   *)
(* record routing and the teardown sequence, run by one handling task per  *)
(* accepted connection against the shared server state.                    *)
(***************************************************************************)
EXTENDS Naturals, Sequences, FiniteSets

\* ---------------------------------------------------------------- bounds
NumConns == 2
MaxReqs == 4

Conns == 1..NumConns

\* ------------------------------------------------------- message alphabet
\* Oneof tags of service.ServerRequest; "nil" is the unset oneof and
\* "Other" any variant of the protocol the switch has no case for.
ServerRequestTags ==
    {"InformInit", "InformStart", "InformFinish", "RecordPublish",
     "RecordCommunicate", "InformTeardown", "nil", "Other"}

\* Oneof tags of service.Record, same conventions.
RecordTags ==
    {"Header", "Request", "Summary", "Run", "History", "Telemetry",
     "OutputRaw", "Exit", "nil", "Other"}

DataTags == {"RecordPublish", "RecordCommunicate"}

NoRec == "-"

Requests ==
    [tag : ServerRequestTags \ DataTags, rec : {NoRec}]
        \cup [tag : DataTags, rec : RecordTags]

NoReq == [tag |-> "none", rec |-> NoRec]

VARIABLES
    accepted,     \* connections the accept loop has handed out
    shutdown,     \* nc.server.shutdown
    listenCloses, \* number of calls of nc.server.listen.Close()
    pc,           \* per connection: position of its handling task
    nReqs,        \* requests received so far, over all connections
    lastConn,     \* the connection whose request the latest step dispatched
    lastReq,      \* that request; NoReq when the latest step was no dispatch
    calls,        \* the handlers that dispatch invoked, in order
    mux,          \* nc.mux: index into streams[c], 0 is the nil pointer
    streams,      \* per connection: every Stream ever constructed
    sent,         \* per connection: responses written to the transport
    nextResp,     \* per connection: id of the next response
    waiting,      \* per connection: a task is blocked in a receive on nc.done
    doneSent,     \* per connection: completed sends on nc.done
    ctxs,         \* per connection: context tree, ctxs[c][1] is nc.ctx
    tornDown,     \* per connection: handleInformTeardown calls that returned
    crashed,      \* the process was terminated by a panic
    panicVal      \* the value of that panic

vars ==
    <<accepted, shutdown, listenCloses, pc, nReqs, lastConn, lastReq, calls,
      mux, streams, sent, nextResp, waiting, doneSent, ctxs, tornDown,
      crashed, panicVal>>

serverVars == <<shutdown, listenCloses>>
streamVars == <<mux, streams, sent, nextResp>>
doneVars == <<waiting, doneSent>>
lastVars == <<lastConn, lastReq, calls>>

\* ---------------------------------------------------------------- contexts
\* context.Context: a context is done when it or an ancestor was cancelled.
RECURSIVE Done(_, _)
Done(tree, k) ==
    IF k = 0 THEN FALSE
    ELSE tree[k].cancelled \/ Done(tree, tree[k].parent)

\* context.WithCancel(parent) followed by a call of the returned cancel.
WithCancelThenCancel(tree, parent) ==
    Append(tree, [parent |-> parent, cancelled |-> TRUE])

\* ---------------------------------------------------------------- streams
NewStream == [inits |-> 0, responder |-> FALSE, out |-> <<>>]

getStream(c) == mux[c]

RespondersRunning(c) ==
    Cardinality({s \in 1..Len(streams[c]) : streams[c][s].responder})

\* ------------------------------------------------------------ type switches
NoPanic == "none"

Route(handlers, panic) == [calls |-> handlers, panic |-> panic]

\* handleServerRequest with the InformStart and InformFinish cases swapped.
handleServerRequest_StartFinishSwapped(tag) ==
    CASE tag = "InformInit" -> Route(<<"handleInformInit">>, NoPanic)
      [] tag = "InformStart" -> Route(<<"handleInformFinish">>, NoPanic)
      [] tag = "InformFinish" -> Route(<<"handleInformStart">>, NoPanic)
      [] tag = "RecordPublish" -> Route(<<"handlePublish">>, NoPanic)
      [] tag = "RecordCommunicate" -> Route(<<"handleCommunicate">>, NoPanic)
      [] tag = "InformTeardown" -> Route(<<"handleInformTeardown">>, NoPanic)
      [] tag = "nil" -> Route(<<>>, "bad2")
      [] OTHER -> Route(<<>>, "UNKNOWN type")

\* handleServerRequest with the InformStart case calling handleInformInit.
handleServerRequest_StartAsInit(tag) ==
    CASE tag \in {"InformInit", "InformStart"} ->
               Route(<<"handleInformInit">>, NoPanic)
      [] tag = "InformFinish" -> Route(<<"handleInformFinish">>, NoPanic)
      [] tag = "RecordPublish" -> Route(<<"handlePublish">>, NoPanic)
      [] tag = "RecordCommunicate" -> Route(<<"handleCommunicate">>, NoPanic)
      [] tag = "InformTeardown" -> Route(<<"handleInformTeardown">>, NoPanic)
      [] tag = "nil" -> Route(<<>>, "bad2")
      [] OTHER -> Route(<<>>, "UNKNOWN type")

\* The type switch of handleServerRequest: the handler it calls, or its panic.
handleServerRequest(tag) ==
    CASE tag = "InformInit" -> Route(<<"handleInformInit">>, NoPanic)
      [] tag = "InformStart" -> Route(<<"handleInformStart">>, NoPanic)
      [] tag = "InformFinish" -> Route(<<"handleInformFinish">>, NoPanic)
      [] tag = "RecordPublish" -> Route(<<"handlePublish">>, NoPanic)
      [] tag = "RecordCommunicate" -> Route(<<"handleCommunicate">>, NoPanic)
      [] tag = "InformTeardown" -> Route(<<"handleInformTeardown">>, NoPanic)
      [] tag = "nil" -> Route(<<>>, "bad2")
      [] OTHER -> Route(<<>>, "UNKNOWN type")

\* ref.WhichOneof(...) is nil for an unset oneof, so .Number() on it panics
\* before the type switch is reached.
WhichOneofNumber(rec) ==
    IF rec = "nil" THEN "nil pointer dereference" ELSE NoPanic

\* handlePublish with the Exit case calling the run handler.
handlePublish_ExitAsRun(rec) ==
    IF WhichOneofNumber(rec) # NoPanic
    THEN Route(<<>>, WhichOneofNumber(rec))
    ELSE CASE rec \in {"Header", "Summary", "History", "Telemetry",
                       "OutputRaw"} -> Route(<<>>, NoPanic)
           [] rec = "Request" -> Route(<<"handleRequest">>, NoPanic)
           [] rec \in {"Run", "Exit"} -> Route(<<"handleRun">>, NoPanic)
           [] OTHER -> Route(<<>>, "REC UNKNOWN type")

\* The type switch of handlePublish.
handlePublish(rec) ==
    IF WhichOneofNumber(rec) # NoPanic
    THEN Route(<<>>, WhichOneofNumber(rec))
    ELSE CASE rec = "Header" -> Route(<<>>, NoPanic)
           [] rec = "Request" -> Route(<<"handleRequest">>, NoPanic)
           [] rec = "Summary" -> Route(<<>>, NoPanic)
           [] rec = "Run" -> Route(<<"handleRun">>, NoPanic)
           [] rec = "History" -> Route(<<>>, NoPanic)
           [] rec = "Telemetry" -> Route(<<>>, NoPanic)
           [] rec = "OutputRaw" -> Route(<<>>, NoPanic)
           [] rec = "Exit" -> Route(<<"handleRunExit">>, NoPanic)
           [] rec = "nil" -> Route(<<>>, "bad2rec")
           [] OTHER -> Route(<<>>, "REC UNKNOWN type")

\* handleCommunicate with the cases of the publish switch.
handleCommunicate_AsPublish(rec) ==
    IF WhichOneofNumber(rec) # NoPanic
    THEN Route(<<>>, WhichOneofNumber(rec))
    ELSE CASE rec \in {"Header", "Summary", "History", "Telemetry",
                       "OutputRaw"} -> Route(<<>>, NoPanic)
           [] rec = "Request" -> Route(<<"handleRequest">>, NoPanic)
           [] rec = "Run" -> Route(<<"handleRun">>, NoPanic)
           [] rec = "Exit" -> Route(<<"handleRunExit">>, NoPanic)
           [] OTHER -> Route(<<>>, "REC UNKNOWN type")

\* The type switch of handleCommunicate.
handleCommunicate(rec) ==
    IF WhichOneofNumber(rec) # NoPanic
    THEN Route(<<>>, WhichOneofNumber(rec))
    ELSE CASE rec = "Request" -> Route(<<"handleRequest">>, NoPanic)
           [] rec = "nil" -> Route(<<>>, "bad2rec")
           [] OTHER -> Route(<<>>, "REC UNKNOWN type")

\* ------------------------------------------------------------------- Init
Init ==
    /\ accepted = {}
    /\ shutdown = FALSE
    /\ listenCloses = 0
    /\ pc = [c \in Conns |-> "idle"]
    /\ nReqs = 0
    /\ lastConn = 0
    /\ lastReq = NoReq
    /\ calls = <<>>
    /\ mux = [c \in Conns |-> 0]
    /\ streams = [c \in Conns |-> <<>>]
    /\ sent = [c \in Conns |-> <<>>]
    /\ nextResp = [c \in Conns |-> 1]
    /\ waiting = [c \in Conns |-> FALSE]
    /\ doneSent = [c \in Conns |-> 0]
    /\ ctxs = [c \in Conns |-> <<[parent |-> 0, cancelled |-> FALSE]>>]
    /\ tornDown = [c \in Conns |-> 0]
    /\ crashed = FALSE
    /\ panicVal = NoPanic

\* A panic in any goroutine terminates the process.
Panic(val) ==
    /\ crashed' = TRUE
    /\ panicVal' = val

NoPanicHere == UNCHANGED <<crashed, panicVal>>

\* The latest step is not a call of handleServerRequest.
NoDispatch ==
    /\ lastConn' = 0
    /\ lastReq' = NoReq
    /\ calls' = <<>>

\* ------------------------------------------------------------ environment
\* The accept loop hands a new connection to its own handling task while the
\* listener is open; connections are numbered in the order of their accept.
Accept(c) ==
    /\ ~crashed
    /\ NoDispatch
    /\ c \notin accepted
    /\ c = Cardinality(accepted) + 1
    /\ listenCloses = 0
    /\ accepted' = accepted \cup {c}
    /\ UNCHANGED <<serverVars, pc, nReqs, streamVars, doneVars, ctxs,
                   tornDown, crashed, panicVal>>

\* A task waiting for the end of the connection is blocked in a receive on
\* nc.done. A receiver that arrived before the sender is indistinguishable
\* from one that arrives while the sender is blocked, so the step is taken
\* then.
WaitDone(c) ==
    /\ ~crashed
    /\ NoDispatch
    /\ c \in accepted
    /\ pc[c] = "td99"
    /\ ~waiting[c]
    /\ waiting' = [waiting EXCEPT ![c] = TRUE]
    /\ UNCHANGED <<accepted, serverVars, pc, nReqs, streamVars, doneSent,
                   ctxs, tornDown, crashed, panicVal>>

\* ------------------------------------------------------- request handlers
\* handleRequest(stream, msg, x.Request): the reply it produces is enqueued
\* on the stream's outbound queue; a nil stream is dereferenced.
handleRequest(c) ==
    IF getStream(c) = 0
    THEN /\ Panic("nil pointer dereference")
         /\ UNCHANGED streamVars
    ELSE /\ streams' = [streams EXCEPT ![c][getStream(c)].out =
                            Append(@, nextResp[c])]
         /\ nextResp' = [nextResp EXCEPT ![c] = @ + 1]
         /\ UNCHANGED <<mux, sent>>
         /\ NoPanicHere

\* handlePublish / handleCommunicate, entered from handleServerRequest as h.
HandleRecord(c, h, rec) ==
    LET r == IF h = "handlePublish" THEN handlePublish(rec)
             ELSE handleCommunicate(rec)
    IN  /\ calls' = <<h>> \o r.calls
        /\ IF r.panic # NoPanic
           THEN Panic(r.panic) /\ UNCHANGED streamVars
           ELSE IF r.calls = <<"handleRequest">>
                THEN handleRequest(c)
                ELSE NoPanicHere /\ UNCHANGED streamVars
        /\ UNCHANGED pc

\* One call of handleServerRequest(nc, msg) on the connection's handling
\* task, up to the first statement of a handler that runs in several steps.
HandleServerRequest(c, req) ==
    /\ ~crashed
    /\ c \in accepted
    /\ pc[c] = "idle"
    /\ nReqs < MaxReqs
    /\ nReqs' = nReqs + 1
    /\ lastConn' = c
    /\ lastReq' = req
    /\ LET r == handleServerRequest(req.tag)
           h == IF r.calls = <<>> THEN "" ELSE r.calls[1]
       IN  CASE r.panic # NoPanic ->
                  /\ Panic(r.panic)
                  /\ calls' = <<>>
                  /\ UNCHANGED <<pc, streamVars>>
             [] h = "handleInformInit" ->
                  /\ pc' = [pc EXCEPT ![c] = "init19"]
                  /\ calls' = <<h>>
                  /\ NoPanicHere /\ UNCHANGED streamVars
             [] h = "handleInformTeardown" ->
                  /\ pc' = [pc EXCEPT ![c] = "td99"]
                  /\ calls' = <<h>>
                  /\ NoPanicHere /\ UNCHANGED streamVars
             [] h \in {"handlePublish", "handleCommunicate"} ->
                  HandleRecord(c, h, req.rec)
             [] OTHER ->
                  \* handleInformStart, handleInformFinish: a print only
                  /\ calls' = <<h>>
                  /\ NoPanicHere /\ UNCHANGED <<pc, streamVars>>
    /\ UNCHANGED <<accepted, serverVars, doneVars, ctxs, tornDown>>

\* ------------------------------------------------------- handleInformInit
\* nc.mux = &Stream{}
InitNewStream(c) ==
    /\ ~crashed
    /\ NoDispatch
    /\ pc[c] = "init19"
    /\ streams' = [streams EXCEPT ![c] = Append(@, NewStream)]
    /\ mux' = [mux EXCEPT ![c] = Len(streams[c]) + 1]
    /\ pc' = [pc EXCEPT ![c] = "init20"]
    /\ UNCHANGED <<accepted, serverVars, nReqs, sent, nextResp, doneVars,
                   ctxs, tornDown, crashed, panicVal>>

\* handleInformInit with the responder started before the Stream is
\* initialized: the go statement stands where init() should.
InitStreamInit_GoFirst(c) ==
    /\ ~crashed
    /\ NoDispatch
    /\ pc[c] = "init20"
    /\ streams' = [streams EXCEPT ![c][mux[c]].responder = TRUE]
    /\ pc' = [pc EXCEPT ![c] = "init21"]
    /\ UNCHANGED <<accepted, serverVars, nReqs, mux, sent, nextResp,
                   doneVars, ctxs, tornDown, crashed, panicVal>>

\* nc.mux.init()
InitStreamInit(c) ==
    /\ ~crashed
    /\ NoDispatch
    /\ pc[c] = "init20"
    /\ streams' = [streams EXCEPT ![c][mux[c]].inits = @ + 1]
    /\ pc' = [pc EXCEPT ![c] = "init21"]
    /\ UNCHANGED <<accepted, serverVars, nReqs, mux, sent, nextResp,
                   doneVars, ctxs, tornDown, crashed, panicVal>>

\* go nc.mux.responder(nc)
InitGoResponder(c) ==
    /\ ~crashed
    /\ NoDispatch
    /\ pc[c] = "init21"
    /\ streams' = [streams EXCEPT ![c][mux[c]].responder = TRUE]
    /\ pc' = [pc EXCEPT ![c] = "idle"]
    /\ UNCHANGED <<accepted, serverVars, nReqs, mux, sent, nextResp,
                   doneVars, ctxs, tornDown, crashed, panicVal>>

\* The responder of stream s: takes the next outbound response and writes
\* it to the connection.
Respond(c, s) ==
    /\ ~crashed
    /\ NoDispatch
    /\ s \in 1..Len(streams[c])
    /\ streams[c][s].responder
    /\ streams[c][s].out # <<>>
    /\ sent' = [sent EXCEPT ![c] = Append(@, Head(streams[c][s].out))]
    /\ streams' = [streams EXCEPT ![c][s].out = Tail(@)]
    /\ UNCHANGED <<accepted, serverVars, pc, nReqs, mux, nextResp,
                   doneVars, ctxs, tornDown, crashed, panicVal>>

\* --------------------------------------------------- handleInformTeardown
\* nc.done <-true: completes when a receiver takes the value.
TeardownSendDone(c) ==
    /\ ~crashed
    /\ NoDispatch
    /\ pc[c] = "td99"
    /\ waiting[c]
    /\ waiting' = [waiting EXCEPT ![c] = FALSE]
    /\ doneSent' = [doneSent EXCEPT ![c] = @ + 1]
    /\ pc' = [pc EXCEPT ![c] = "td100"]
    /\ UNCHANGED <<accepted, serverVars, nReqs, streamVars, ctxs,
                   tornDown, crashed, panicVal>>

\* handleInformTeardown with the cancel and the shutdown flag in the wrong
\* order: the flag is set where the context should be cancelled.
TeardownCancel_FlagFirst(c) ==
    /\ ~crashed
    /\ NoDispatch
    /\ pc[c] = "td100"
    /\ shutdown' = TRUE
    /\ pc' = [pc EXCEPT ![c] = "td108"]
    /\ UNCHANGED <<accepted, listenCloses, nReqs, streamVars, doneVars, ctxs,
                   tornDown, crashed, panicVal>>

\* _, cancelCtx := context.WithCancel(nc.ctx); cancelCtx()
TeardownCancel(c) ==
    /\ ~crashed
    /\ NoDispatch
    /\ pc[c] = "td100"
    /\ ctxs' = [ctxs EXCEPT ![c] = WithCancelThenCancel(@, 1)]
    /\ pc' = [pc EXCEPT ![c] = "td108"]
    /\ UNCHANGED <<accepted, serverVars, nReqs, streamVars, doneVars,
                   tornDown, crashed, panicVal>>

\* handleInformTeardown without the assignment to the shutdown flag.
TeardownMarkShutdown_Skipped(c) ==
    /\ ~crashed
    /\ NoDispatch
    /\ pc[c] = "td108"
    /\ pc' = [pc EXCEPT ![c] = "td109"]
    /\ UNCHANGED <<accepted, serverVars, nReqs, streamVars, doneVars, ctxs,
                   tornDown, crashed, panicVal>>

\* nc.server.shutdown = true
TeardownMarkShutdown(c) ==
    /\ ~crashed
    /\ NoDispatch
    /\ pc[c] = "td108"
    /\ shutdown' = TRUE
    /\ pc' = [pc EXCEPT ![c] = "td109"]
    /\ UNCHANGED <<accepted, listenCloses, nReqs, streamVars, doneVars,
                   ctxs, tornDown, crashed, panicVal>>

\* nc.server.listen.Close(), and the return of the handler
TeardownCloseListener(c) ==
    /\ ~crashed
    /\ NoDispatch
    /\ pc[c] = "td109"
    /\ listenCloses' = listenCloses + 1
    /\ tornDown' = [tornDown EXCEPT ![c] = @ + 1]
    /\ pc' = [pc EXCEPT ![c] = "idle"]
    /\ UNCHANGED <<accepted, shutdown, nReqs, streamVars, doneVars, ctxs,
                   crashed, panicVal>>

\* ------------------------------------------------------------------- Next
Next ==
    \/ \E c \in Conns : Accept(c)
    \/ \E c \in Conns : WaitDone(c)
    \/ \E c \in Conns, req \in Requests : HandleServerRequest(c, req)
    \/ \E c \in Conns : InitNewStream(c)
    \/ \E c \in Conns : InitStreamInit(c)
    \/ \E c \in Conns : InitGoResponder(c)
    \/ \E c \in Conns, s \in 1..MaxReqs : Respond(c, s)
    \/ \E c \in Conns : TeardownSendDone(c)
    \/ \E c \in Conns : TeardownCancel(c)
    \/ \E c \in Conns : TeardownMarkShutdown(c)
    \/ \E c \in Conns : TeardownCloseListener(c)

Spec == Init /\ [][Next]_vars

\* The steps of the handling task of connection c inside a handler: the go
\* scheduler runs a goroutine that can run. The send on nc.done can run only
\* once a receiver is there.
HandlerStep(c) ==
    \/ InitNewStream(c)
    \/ InitStreamInit(c)
    \/ InitGoResponder(c)
    \/ TeardownSendDone(c)
    \/ TeardownCancel(c)
    \/ TeardownMarkShutdown(c)
    \/ TeardownCloseListener(c)

\* The steps of the responders of connection c.
ResponderStep(c) == \E s \in 1..MaxReqs : Respond(c, s)

\* Spec with the scheduling of goroutines: a handler or responder step that
\* stays possible is taken. Nothing obliges a client to send a request, the
\* accept loop to accept, or a task to receive from nc.done.
FairSpec ==
    /\ Spec
    /\ \A c \in Conns : WF_vars(HandlerStep(c)) /\ WF_vars(ResponderStep(c))

TypeOK ==
    /\ accepted \subseteq Conns
    /\ shutdown \in BOOLEAN
    /\ listenCloses \in 0..MaxReqs
    /\ nReqs \in 0..MaxReqs
    /\ \A c \in Conns :
         /\ pc[c] \in {"idle", "init19", "init20", "init21",
                       "td99", "td100", "td108", "td109"}
         /\ mux[c] \in 0..Len(streams[c])
         /\ waiting[c] \in BOOLEAN
         /\ doneSent[c] \in 0..MaxReqs
         /\ tornDown[c] \in 0..MaxReqs
    /\ lastConn \in 0..NumConns
    /\ lastReq \in Requests \cup {NoReq}
    /\ crashed \in BOOLEAN

\* =================================================================== claims
TeardownPcs == {"td99", "td100", "td108", "td109"}

\* No teardown was handled or is being handled on any connection but c.
OnlyTeardownOn(c) ==
    \A d \in Conns \ {c} : tornDown[d] = 0 /\ pc[d] \notin TeardownPcs

\* C1 (as claimed): once InformTeardown has been handled twice on one
\* connection, and on no other, the listener was closed exactly once and the
\* connection's completion channel was signalled exactly once.
C1_TeardownIdempotent ==
    \A c \in Conns :
        (tornDown[c] >= 2 /\ OnlyTeardownOn(c)) =>
            (listenCloses = 1 /\ doneSent[c] = 1)

\* C2 (as claimed): when InformTeardown has been handled once on each of two
\* different connections, whatever the interleaving of the two handlers, the
\* listener was closed exactly once.
C2_ConcurrentTeardownClosesOnce ==
    \A c, d \in Conns :
        (c # d /\ tornDown[c] = 1 /\ tornDown[d] = 1) => listenCloses = 1

\* C3 (as claimed): at most one Stream is ever created and attached to a
\* connection; a second InformInit does not replace the attached Stream.
C3_StreamAttachedAtMostOnce ==
    \A c \in Conns : Len(streams[c]) <= 1 /\ mux[c] <= 1

\* C4 (as claimed): at most one responder task is running per connection.
C4_AtMostOneResponder ==
    \A c \in Conns : RespondersRunning(c) <= 1

RecordHandlers == {"handleRun", "handleRunExit", "handleRequest"}

Invoked(h) == \E i \in 1..Len(calls) : calls[i] = h

\* C5 (as claimed): a Publish or Communicate dispatched on a connection
\* after InformTeardown was handled on it reaches none of handleRun,
\* handleRunExit and handleRequest.
C5_PostTeardownDiscarded ==
    (lastReq.tag \in DataTags /\ tornDown[lastConn] > 0) =>
        \A h \in RecordHandlers : ~Invoked(h)

\* The handler the claim expects for each recognized tag.
ExpectedHandler ==
    [InformInit |-> "handleInformInit",
     InformStart |-> "handleInformStart",
     InformFinish |-> "handleInformFinish",
     InformTeardown |-> "handleInformTeardown",
     RecordPublish |-> "handlePublish",
     RecordCommunicate |-> "handleCommunicate"]

TopHandlers == {ExpectedHandler[t] : t \in DOMAIN ExpectedHandler}

\* C6: every request dispatched by handleServerRequest runs exactly one of
\* the six handlers, the one of its tag (and the handling task enters that
\* handler's body); a request with an absent or unrecognized tag runs no
\* handler and panics.
C6_ExactlyOneHandler ==
    lastReq # NoReq =>
        IF lastReq.tag \in DOMAIN ExpectedHandler
        THEN /\ calls # <<>>
             /\ calls[1] = ExpectedHandler[lastReq.tag]
             /\ \A i \in 2..Len(calls) : calls[i] \notin TopHandlers
             /\ panicVal \notin {"bad2", "UNKNOWN type"}
             /\ pc[lastConn] =
                    CASE lastReq.tag = "InformInit" -> "init19"
                      [] lastReq.tag = "InformTeardown" -> "td99"
                      [] OTHER -> "idle"
        ELSE /\ calls = <<>>
             /\ crashed
             /\ panicVal \in {"bad2", "UNKNOWN type"}
             /\ pc[lastConn] = "idle"

\* C6 witness: an InformFinish request has run handleInformFinish.
C6_Witness ==
    /\ lastReq.tag = "InformFinish"
    /\ calls = <<"handleInformFinish">>
    /\ ~crashed

\* C7: on the Communicate path a Request record is forwarded to
\* handleRequest and to nothing else; a record of any other variant, or with
\* an absent tag, panics and reaches no handler below handleCommunicate.
C7_CommunicateOnlyRequest ==
    lastReq.tag = "RecordCommunicate" =>
        IF lastReq.rec = "Request"
        THEN /\ calls = <<"handleCommunicate", "handleRequest">>
             /\ mux[lastConn] # 0 => ~crashed
        ELSE /\ calls = <<"handleCommunicate">>
             /\ crashed
             /\ panicVal \in {"REC UNKNOWN type", "bad2rec",
                              "nil pointer dereference"}

\* C7 witness: a Run record sent via Communicate has panicked.
C7_Witness ==
    /\ lastReq = [tag |-> "RecordCommunicate", rec |-> "Run"]
    /\ calls = <<"handleCommunicate">>
    /\ crashed

SilentVariants == {"Header", "Summary", "History", "Telemetry", "OutputRaw"}

Variants == SilentVariants \cup {"Run", "Exit", "Request"}

C9_ConnContextCancelled ==
    \A c \in Conns : tornDown[c] > 0 => Done(ctxs[c], 1)

\* C10 (as claimed): while the shutdown flag is set the accept loop accepts
\* no connection, and the listener is never closed a second time.
C10_NoAcceptAfterShutdown ==
    [][(shutdown => accepted' = accepted) /\ listenCloses' <= 1]_vars

\* ids of the responses of connection c, in the order of their enqueueing
Increasing(seq) ==
    \A i, j \in 1..Len(seq) : i < j => seq[i] < seq[j]

\* C11 (as claimed): the responses of a connection reach the transport in
\* the order of their enqueueing, none of them twice, also when the
\* connection saw more than one InformInit.
C11_ResponsesInEnqueueOrder ==
    \A c \in Conns : Increasing(sent[c])

\* The request is a protocol violation: its oneof, or that of its record, is
\* unset or has no case in the type switch.
ProtocolViolation(req) ==
    \/ req.tag \in {"nil", "Other"}
    \/ req.tag \in DataTags /\ req.rec \in {"nil", "Other"}

\* C12 (as claimed): after a protocol violation on one connection every
\* other accepted connection whose handling task is idle can still have its
\* next request handled: the process was not terminated.
C12_ViolationIsLocal ==
    (lastReq # NoReq /\ ProtocolViolation(lastReq)) =>
        \A d \in accepted \ {lastConn} :
            (pc[d] = "idle" /\ nReqs < MaxReqs) =>
                ENABLED HandleServerRequest(d, [tag |-> "InformStart",
                                                rec |-> NoRec])

\* C13 (as claimed): a handleInformTeardown that has started on a connection
\* eventually closes the listener and returns (unless the process has
\* terminated): it never stays blocked in the send on nc.done.
C13_TeardownReturns ==
    \A c \in Conns : (pc[c] = "td99") ~> (pc[c] = "idle" \/ crashed)

\* Contexts derived from nc.ctx on connection c that were cancelled.
Cancelled(c) ==
    Cardinality({k \in 2..Len(ctxs[c]) : ctxs[c][k].cancelled})

RECURSIVE SumTornDown(_)
SumTornDown(n) == IF n = 0 THEN 0 ELSE tornDown[n] + SumTornDown(n - 1)

\* C14: within every handleInformTeardown the four steps happen in the
\* order signal, cancel, flag, close, each after the one before: at each
\* position of the handler exactly the steps before it were done, the
\* listener was closed only by handlers that did all four (so never before
\* the completion signal), and the flag is set from the third step on.
C14_TeardownStepOrder ==
    /\ \A c \in Conns :
         LET n == tornDown[c]
         IN  CASE pc[c] = "td99" ->
                    doneSent[c] = n /\ Cancelled(c) = n
               [] pc[c] = "td100" ->
                    doneSent[c] = n + 1 /\ Cancelled(c) = n
               [] pc[c] = "td108" ->
                    doneSent[c] = n + 1 /\ Cancelled(c) = n + 1
               [] pc[c] = "td109" ->
                    doneSent[c] = n + 1 /\ Cancelled(c) = n + 1 /\ shutdown
               [] OTHER ->
                    doneSent[c] = n /\ Cancelled(c) = n
    /\ listenCloses = SumTornDown(NumConns)
    /\ shutdown <=> \E c \in Conns : pc[c] = "td109" \/ tornDown[c] > 0

\* C14 witness: a teardown has signalled, cancelled and set the flag, and is
\* about to close the listener, which is still open.
C14_Witness ==
    \E c \in Conns :
        /\ pc[c] = "td109"
        /\ doneSent[c] = 1 /\ Cancelled(c) = 1 /\ shutdown
        /\ listenCloses = 0

\* C15 (as claimed): under fair scheduling, once InformTeardown has been
\* handled on a connection every responder started on it (one per Stream
\* ever created there) eventually exits, so that every Stream reaches
\* Stopped.
C15_StreamsStopAfterTeardown ==
    \A c \in Conns :
        (tornDown[c] > 0 /\ RespondersRunning(c) > 0)
            ~> (RespondersRunning(c) = 0 \/ crashed)

InitPcs == {"init19", "init20", "init21"}

\* C16: when handleInformInit has returned, the connection has an attached
\* Stream, initialized exactly once, with its responder started, and so has
\* every Stream an earlier handleInformInit left; no Stream is initialized
\* twice and no responder runs on a Stream before its initialization; the
\* go statement never waits.
C16_InitCompleteOnReturn ==
    \A c \in Conns :
        LET n == Len(streams[c])
        IN  /\ \A s \in 1..n :
                 /\ streams[c][s].inits <= 1
                 /\ streams[c][s].responder => streams[c][s].inits = 1
                 /\ (s < n \/ pc[c] \notin InitPcs) =>
                        streams[c][s].inits = 1 /\ streams[c][s].responder
            /\ (n > 0 /\ pc[c] # "init19") => mux[c] = n
            /\ pc[c] = "init20" => n > 0 /\ streams[c][n].inits = 0
            /\ pc[c] = "init21" =>
                 /\ n > 0 /\ streams[c][n].inits = 1
                 /\ ~streams[c][n].responder
                 /\ ~crashed => ENABLED InitGoResponder(c)

\* C16 witness: handleInformInit has returned on a connection, whose Stream
\* is attached, initialized once and has its responder.
C16_Witness ==
    \E c \in Conns :
        /\ pc[c] = "idle"
        /\ mux[c] = 1
        /\ streams[c][1].inits = 1
        /\ streams[c][1].responder

\* C17: handling InformStart or InformFinish changes nothing of the
\* connection or the server: not the attached Stream, any queue, nc.done,
\* the contexts, the shutdown flag or the listener, and it starts no task
\* and leaves the handling task ready for the next request.
C17_StartFinishChangeNothing ==
    [][lastReq'.tag \in {"InformStart", "InformFinish"} =>
         UNCHANGED <<accepted, serverVars, pc, streamVars, doneVars, ctxs,
                     tornDown, crashed, panicVal>>
      ]_vars

\* C17 witness: InformStart was handled on a connection that has a Stream
\* with a pending response.
C17_Witness ==
    /\ lastReq.tag = "InformStart"
    /\ calls = <<"handleInformStart">>
    /\ mux[lastConn] # 0
    /\ streams[lastConn][mux[lastConn]].out # <<>>

\* C18 (as claimed): whenever handlePublish or handleCommunicate forwards a
\* record to handleRun, handleRunExit or handleRequest, the Stream it passes
\* is an attached, initialized Stream, never nil.
C18_HandlersGetStream ==
    (lastReq.tag \in DataTags /\ \E h \in RecordHandlers : Invoked(h)) =>
        /\ getStream(lastConn) # 0
        /\ streams[lastConn][getStream(lastConn)].inits = 1

\* This step is a call of nc.server.listen.Close().
CloseStep == listenCloses' # listenCloses

\* C19: the shutdown flag, once set, is never cleared by any step on any
\* connection, and the listener is closed only with the flag set: a closed
\* listener implies the shutdown flag.
C19_ShutdownMonotonic ==
    [][/\ shutdown => shutdown'
       /\ CloseStep => shutdown /\ shutdown'
       /\ listenCloses' > 0 => shutdown'
      ]_vars

\* C19 witness: after a teardown has closed the listener, a later request
\* was handled and the flag is still set.
C19_Witness ==
    /\ shutdown
    /\ listenCloses > 0
    /\ lastReq # NoReq
    /\ tornDown[lastConn] > 0

====
